---- MODULE Spec2Model ----
(***************************************************************************)
(* SP-YT/yt.py: the YouTube batch downloader (youtube_batch_download and   *)
(* its worker, youtube_download_single) and the settings handler that      *)
(* feeds it (update_settings), the file-name helpers (safe_filename,       *)
(* parse_artist_title_from_basename) and the folder converter              *)
(* (batch_convert, convert_to_mp3_normalized).                             *)
(*                                                                         *)
(* Specifications: Spec and SpecPool (one batch call and its pool),        *)
(* SpecSettings (update_settings), SpecSanitize, SpecSplit (the file-name  *)
(* helpers), SpecConvert (batch_convert), SpecFetch (one                   *)
(* youtube_download_single call) and SpecRace (two such calls on one       *)
(* download folder).                                                       *)
(*                                                                         *)
(* A Python dict is a TLA+ function whose DOMAIN is the dict's key set;    *)
(* None is the string NoneVal, str(e) of an exception without arguments is *)
(* the empty string.  A str handed to the file-name helpers is a sequence  *)
(* of one-character strings.                                               *)
(***************************************************************************)
EXTENDS Integers, Sequences, FiniteSets, TLC

\* ---------------------------------------------------------------- bounds
\* longest identifier list handed to youtube_batch_download
MaxUrls == 2
\* largest integer a settings form submits (the smallest is -1)
MaxSetting == 2

\* longest name handed to safe_filename
MaxNameLen == 4
\* longest base name handed to parse_artist_title_from_basename
MaxBaseLen == 9

\* ------------------------------------------------------- program constants
DefaultMaxWorkers == 3
DefaultMaxRetries == 6

\* the name as_completed is used at line 371 and bound nowhere in the module
\* (line 24 imports ThreadPoolExecutor only)
as_completed_defined == FALSE
\* DEFAULT_SETTINGS["yt"]["sleep_between_retries"]; no request changes it
sleep_between == 2

NoneVal == "<None>"
\* None where the value is otherwise a str of the file-name helpers
NoneStr == <<NoneVal>>
Identifiers == {"u1", "u2"}
Items == 1..MaxUrls
Max(a, b) == IF a >= b THEN a ELSE b
Threads == 1..Max(DefaultMaxWorkers, MaxSetting)

\* identifiers are opaque strings: the lists are enumerated up to renaming,
\* a non-empty one starts with u1
UrlLists ==
    {us \in UNION {[1..n -> Identifiers] : n \in 0..MaxUrls} :
        Len(us) > 0 => us[1] = "u1"}

\* a submitted form field, after .strip(): empty, text int() rejects, or
\* the decimal text of an integer
SubmittedInts == (-1)..MaxSetting
FormValues ==
    {[kind |-> "blank", n |-> 0], [kind |-> "text", n |-> 0]}
        \cup {[kind |-> "int", n |-> v] : v \in SubmittedInts}

\* ------------------------------------------------------------- dict helpers
EmptyDict == [k \in {} |-> NoneVal]

\* d.get(k) for the keys whose values are strings or None
Get(d, k) == IF k \in DOMAIN d THEN d[k] ELSE NoneVal

\* truthiness of d.get("ok"): a missing key gives None, which is falsy
GetOk(d) == IF "ok" \in DOMAIN d THEN d["ok"] ELSE FALSE

\* d[k] = v
DictSet(d, k, v) == [x \in DOMAIN d \cup {k} |-> IF x = k THEN v ELSE d[x]]

\* `x or y` for x a string or None
StrOr(x, y) == IF x = NoneVal \/ x = "" THEN y ELSE x

\* `int(x or y)` for x an int
IntOr(x, y) == IF x = 0 THEN y ELSE x

\* --------------------------------------------------- the extraction adapter
\* what the external service and the file system do in one call: an exception
\* with a message (the RuntimeError of line 282 included) or without one, or a
\* download followed by no rename, a rename, or a rename that fails
FailureKinds == {"raise", "raise_nomsg"}
SuccessKinds == {"ok_same", "ok_renamed", "ok_rename_failed"}

\* the adapter with the rename of line 307 outside its own try: the failure
\* reaches the handler of line 322 after ok was set
youtube_download_single_RenameEscapes(url, x) ==
    LET res == [url |-> url, ok |-> FALSE, filename |-> NoneVal,
                title |-> NoneVal, artist |-> NoneVal, error |-> NoneVal]
    IN  CASE x = "raise"       -> [res EXCEPT !.error = "ERR"]
          [] x = "raise_nomsg" -> [res EXCEPT !.error = ""]
          [] x = "ok_same"     ->
                [res EXCEPT !.ok = TRUE, !.filename = "orig",
                            !.title = "title", !.artist = "artist"]
          [] x = "ok_renamed"  ->
                [res EXCEPT !.ok = TRUE, !.filename = "nice",
                            !.title = "title", !.artist = "artist"]
          [] x = "ok_rename_failed" ->
                [res EXCEPT !.ok = TRUE, !.filename = "orig",
                            !.title = "title", !.artist = "artist",
                            !.error = "rename failed"]

youtube_download_single(url, x) ==
    LET res == [url |-> url, ok |-> FALSE, filename |-> NoneVal,
                title |-> NoneVal, artist |-> NoneVal, error |-> NoneVal]
    IN  CASE x = "raise"       -> [res EXCEPT !.error = "ERR"]
          [] x = "raise_nomsg" -> [res EXCEPT !.error = ""]
          [] x = "ok_same"     ->
                [res EXCEPT !.ok = TRUE, !.filename = "orig",
                            !.title = "title", !.artist = "artist"]
          [] x = "ok_renamed"  ->
                [res EXCEPT !.ok = TRUE, !.filename = "nice",
                            !.title = "title", !.artist = "artist"]
          [] x = "ok_rename_failed" ->
                [res EXCEPT !.ok = TRUE, !.filename = "orig",
                            !.title = "title", !.artist = "artist"]

\* ----------------------------------------------------------------- state
VARIABLES
    SETTINGS,       \* SETTINGS["yt"]: max_workers, max_retries
    pc_main,        \* "idle", "submit", "done": the request thread
    urls,           \* the argument of youtube_batch_download
    max_workers,    \* its locals, read from SETTINGS at entry
    max_retries,
    poolCreated,    \* ThreadPoolExecutor(...) was constructed
    num_threads,    \* pool threads started so far
    idle_semaphore, \* the executor's count of threads that went idle
    submitted,      \* number of ex.submit calls made
    queue,          \* the executor's work queue (entry indices)
    wpc,            \* per pool thread: where it is in worker()
    witem,          \* per pool thread: the entry it runs worker() for
    attempt,        \* per pool thread: the loop variable
    res,            \* per pool thread: the local res
    log,            \* per entry: the attempt numbers of the adapter calls started
    inflight,       \* per entry: adapter calls started and not yet returned
    fails,          \* per entry: adapter calls that returned not ok
    sleeps,         \* per entry: time.sleep calls made
    slept,          \* per entry: the seconds of those calls, in order
    last_error,     \* per entry: res.get("error") of the latest adapter return
    progress,       \* the values of done_counter logged at line 357, in order
    done_counter,
    future,         \* per entry: Pending, or the value worker() returned
    completion,     \* entries in the order their workers returned
    results,        \* the results list
    outcome         \* of the call: none, returned with a summary, or raised

ytVars == <<SETTINGS, pc_main, urls, max_workers, max_retries, poolCreated,
            num_threads, idle_semaphore, submitted, queue, wpc, witem, attempt,
            res, log, inflight, fails, sleeps, slept, last_error, progress,
            done_counter, future, completion, results, outcome>>

\* one call of safe_filename and one of parse_artist_title_from_basename
VARIABLES
    s_pc,           \* "idle", "call", "returned"
    s_name,         \* the argument name
    s_out,          \* the returned string
    p_pc,           \* "idle", "call", "returned"
    p_basename,     \* the argument basename
    p_out           \* the returned pair [artist, title]

nameVars == <<s_pc, s_name, s_out, p_pc, p_basename, p_out>>

\* one call of batch_convert and its calls of convert_to_mp3_normalized
VARIABLES
    c_pc,           \* "idle", "start", "loop", "encode", "sleep", "row", "done"
    c_folder,       \* the input folder: [exists, entries]
    c_files,        \* files: the sorted eligible entries
    c_idx,          \* position of the loop of line 229 in files
    c_result,       \* result: files_found, converted, errors, details
    c_outcome,      \* "none", "returned", "raised"
    c_outputs,      \* the output folder: per stem, the entry its .mp3 was
                    \* encoded from (0: no such file)
    e_attempt,      \* convert_to_mp3_normalized: attempt
    e_log,          \* what its encoder invocations did, in order
    e_sleeps,       \* the seconds of its time.sleep calls, in order
    e_ret           \* the value it returned (read at c_pc = "row")

convVars == <<c_pc, c_folder, c_files, c_idx, c_result, c_outcome, c_outputs,
              e_attempt, e_log, e_sleeps, e_ret>>

\* one call of youtube_download_single, step by step
VARIABLES
    f_pc,           \* "idle", "call", "rename", "update", "returned"
    f_info,         \* what the service answers: title, artist, and the stem
                    \* of the file name it gives the download
    f_files,        \* stems of the files in the download folder
    f_orig,         \* orig_path (stem)
    f_new,          \* new_path (stem)
    f_renames,      \* the calls of orig_path.rename: from, to, ok
    f_res           \* res

fetchVars == <<f_pc, f_info, f_files, f_orig, f_new, f_renames, f_res>>

\* two calls of youtube_download_single running in two pool threads on one
\* download folder
VARIABLES
    r_posix,        \* the platform: rename replaces an existing target (POSIX)
                    \* or raises FileExistsError (Windows)
    r_info,         \* per call: the name the service gives the file (orig)
                    \* and the display name (nice)
    r_pc,           \* per call: "idle", "call", "rename", "update", "returned"
    r_new,          \* per call: new_path
    r_folder,       \* per name: the call whose download the file holds (0: no file)
    r_renamed,      \* per call: what orig_path.rename did: "no" (not called),
                    \* "ok", "refused" (source missing, or target there on
                    \* Windows), "failed" (any other error)
    r_order,        \* the calls in the order of their successful renames
    r_res           \* per call: res

raceVars == <<r_posix, r_info, r_pc, r_new, r_folder, r_renamed, r_order, r_res>>

vars == <<ytVars, nameVars, convVars, fetchVars, raceVars>>

\* what the operations of one group leave alone
notYt == <<nameVars, convVars, fetchVars, raceVars>>
notName == <<ytVars, convVars, fetchVars, raceVars>>
notConv == <<ytVars, nameVars, fetchVars, raceVars>>
notFetch == <<ytVars, nameVars, convVars, raceVars>>
notRace == <<ytVars, nameVars, convVars, fetchVars>>

\* lines 269-276
FreshRes ==
    [ok |-> FALSE, filename |-> NoneStr, title |-> NoneStr, artist |-> NoneStr,
     error |-> NoneVal]

FetchIdle ==
    /\ f_pc = "idle"
    /\ f_info = [title |-> <<>>, artist |-> <<>>, stem |-> <<>>]
    /\ f_files = {}
    /\ f_orig = <<>>
    /\ f_new = <<>>
    /\ f_renames = <<>>
    /\ f_res = FreshRes

\* the two concurrent calls and the file names they meet
Calls == {1, 2}
FileNames == {"x", "y", "z"}

RaceIdle ==
    /\ r_posix = TRUE
    /\ r_info = [w \in Calls |-> [orig |-> "x", nice |-> "x"]]
    /\ r_pc = [w \in Calls |-> "idle"]
    /\ r_new = [w \in Calls |-> "x"]
    /\ r_folder = [n \in FileNames |-> 0]
    /\ r_renamed = [w \in Calls |-> "no"]
    /\ r_order = <<>>
    /\ r_res = [w \in Calls |-> [ok |-> FALSE, filename |-> NoneVal, error |-> NoneVal]]

\* the stems of the entries of Candidates
Stems == {"album", "notes", "song", "take"}

\* an output folder without .mp3 files
NoOutputs == [st \in Stems |-> 0]

EmptyResult == [files_found |-> 0, converted |-> 0, errors |-> <<>>, details |-> <<>>]

ConvIdle ==
    /\ c_pc = "idle"
    /\ c_folder = [exists |-> FALSE, entries |-> {}]
    /\ c_files = <<>>
    /\ c_idx = 0
    /\ c_result = EmptyResult
    /\ c_outcome = "none"
    /\ c_outputs = NoOutputs
    /\ e_attempt = 0
    /\ e_log = <<>>
    /\ e_sleeps = <<>>
    /\ e_ret = FALSE

NameIdle ==
    /\ s_pc = "idle" /\ s_name = <<>> /\ s_out = <<>>
    /\ p_pc = "idle" /\ p_basename = <<>>
    /\ p_out = [artist |-> NoneStr, title |-> NoneStr]

mainVars == <<SETTINGS, pc_main, urls, max_workers, max_retries, poolCreated,
              results, outcome>>

batchVars == <<num_threads, idle_semaphore, submitted, queue, wpc, witem, attempt,
               res, log, inflight, fails, sleeps, slept, last_error, progress,
               done_counter, future, completion>>

Pending == [state |-> "pending"]
Done(i) == future[i].state = "done"
total == Len(urls)

\* the state before a request is handled, with SETTINGS["yt"] = s
InitState(s) ==
    /\ SETTINGS = s
    /\ pc_main = "idle"
    /\ urls = <<>>
    /\ max_workers = 0
    /\ max_retries = 0
    /\ poolCreated = FALSE
    /\ num_threads = 0
    /\ idle_semaphore = 0
    /\ submitted = 0
    /\ queue = <<>>
    /\ wpc = [t \in Threads |-> "idle"]
    /\ witem = [t \in Threads |-> 0]
    /\ attempt = [t \in Threads |-> 0]
    /\ res = [t \in Threads |-> EmptyDict]
    /\ log = [i \in Items |-> <<>>]
    /\ inflight = [i \in Items |-> 0]
    /\ fails = [i \in Items |-> 0]
    /\ sleeps = [i \in Items |-> 0]
    /\ slept = [i \in Items |-> <<>>]
    /\ last_error = [i \in Items |-> NoneVal]
    /\ progress = <<>>
    /\ done_counter = 0
    /\ future = [i \in Items |-> Pending]
    /\ completion = <<>>
    /\ results = <<>>
    /\ outcome = [kind |-> "none"]

\* module load without a settings file: SETTINGS is DEFAULT_SETTINGS
YtIdle ==
    InitState([max_workers |-> DefaultMaxWorkers, max_retries |-> DefaultMaxRetries])

\* no other operation is in progress
OthersIdle == NameIdle /\ ConvIdle /\ FetchIdle /\ RaceIdle

InitSettings == YtIdle /\ OthersIdle

\* a batch request arrives with SETTINGS as earlier requests left them; the
\* stored value 0, which selects the defaults, is explored by SpecSettings
StoredSettings == SubmittedInts \ {0}

Init ==
    /\ \E s \in [max_workers : StoredSettings, max_retries : StoredSettings] :
          InitState(s)
    /\ OthersIdle

\* ------------------------------------------------------- update_settings
\* int(text) of a non-empty field replaces the setting; a blank field and a
\* ValueError leave it alone
NewSetting(old, f) == IF f.kind = "int" THEN f.n ELSE old

update_settings(fw, fr) ==
    /\ pc_main = "idle"
    /\ SETTINGS' = [max_workers |-> NewSetting(SETTINGS.max_workers, fw),
                    max_retries |-> NewSetting(SETTINGS.max_retries, fr)]
    /\ UNCHANGED <<pc_main, urls, max_workers, max_retries, poolCreated,
                   results, outcome>>
    /\ UNCHANGED batchVars
    /\ UNCHANGED notYt

\* the early return of line 363 moved below the creation of the pool
RunBatchEmpty_AfterPool ==
    /\ pc_main = "idle"
    /\ urls' = <<>>
    /\ max_workers' = IntOr(SETTINGS.max_workers, DefaultMaxWorkers)
    /\ max_retries' = IntOr(SETTINGS.max_retries, DefaultMaxRetries)
    /\ results' = <<>>
    /\ outcome' = [kind |-> "returned",
                   summary |-> [total |-> 0, ok |-> 0, failed |-> 0]]
    /\ poolCreated' = TRUE
    /\ pc_main' = "done"
    /\ UNCHANGED SETTINGS
    /\ UNCHANGED batchVars
    /\ UNCHANGED notYt

\* ------------------------------------------------ youtube_batch_download
\* lines 334-343 and 363-367: the locals are read, total == 0 returns at once
RunBatchEmpty ==
    /\ pc_main = "idle"
    /\ urls' = <<>>
    /\ max_workers' = IntOr(SETTINGS.max_workers, DefaultMaxWorkers)
    /\ max_retries' = IntOr(SETTINGS.max_retries, DefaultMaxRetries)
    /\ results' = <<>>
    /\ outcome' = [kind |-> "returned",
                   summary |-> [total |-> 0, ok |-> 0, failed |-> 0]]
    /\ pc_main' = "done"
    /\ UNCHANGED <<SETTINGS, poolCreated>>
    /\ UNCHANGED batchVars
    /\ UNCHANGED notYt

\* line 369 with max_workers <= 0: ThreadPoolExecutor raises ValueError
RunBatchPoolError(us) ==
    /\ pc_main = "idle"
    /\ Len(us) > 0
    /\ IntOr(SETTINGS.max_workers, DefaultMaxWorkers) <= 0
    /\ urls' = us
    /\ max_workers' = IntOr(SETTINGS.max_workers, DefaultMaxWorkers)
    /\ max_retries' = IntOr(SETTINGS.max_retries, DefaultMaxRetries)
    /\ outcome' = [kind |-> "raised", exc |-> "ValueError"]
    /\ pc_main' = "done"
    /\ UNCHANGED <<SETTINGS, poolCreated, results>>
    /\ UNCHANGED batchVars
    /\ UNCHANGED notYt

\* line 369 with max_workers > 0: the pool is created
RunBatchStart(us) ==
    /\ pc_main = "idle"
    /\ Len(us) > 0
    /\ IntOr(SETTINGS.max_workers, DefaultMaxWorkers) > 0
    /\ urls' = us
    /\ max_workers' = IntOr(SETTINGS.max_workers, DefaultMaxWorkers)
    /\ max_retries' = IntOr(SETTINGS.max_retries, DefaultMaxRetries)
    /\ poolCreated' = TRUE
    /\ pc_main' = "submit"
    /\ UNCHANGED <<SETTINGS, results, outcome>>
    /\ UNCHANGED batchVars
    /\ UNCHANGED notYt

\* a pool that starts a thread per submitted entry, whatever mw is
ThreadsAfterSubmit_Unbounded(n, sem, mw) == IF sem = 0 THEN n + 1 ELSE n

\* ThreadPoolExecutor(max_workers=mw) starts a thread on a submit only when
\* no thread has gone idle and fewer than mw threads exist
ThreadsAfterSubmit(n, sem, mw) == IF sem = 0 /\ n < mw THEN n + 1 ELSE n

\* line 370: ex.submit(worker, u) for the next entry
Submit ==
    /\ pc_main = "submit"
    /\ submitted < total
    /\ submitted' = submitted + 1
    /\ queue' = Append(queue, submitted + 1)
    /\ num_threads' = ThreadsAfterSubmit(num_threads, idle_semaphore, max_workers)
    /\ idle_semaphore' = IF idle_semaphore > 0 THEN idle_semaphore - 1 ELSE 0
    /\ UNCHANGED mainVars
    /\ UNCHANGED <<wpc, witem, attempt, res, log, inflight, fails, sleeps,
                   slept, last_error, progress, done_counter, future, completion>>
    /\ UNCHANGED notYt

\* range(1, max_retries + 1) still has the value a
InRange(a, mr) == a <= mr

\* lines 348-350: the loop is entered with attempt a and the adapter is called,
\* or the loop is over
EnterLoop(t, i, a) ==
    IF InRange(a, max_retries)
    THEN /\ log' = [log EXCEPT ![i] = Append(@, a)]
         /\ inflight' = [inflight EXCEPT ![i] = @ + 1]
         /\ wpc' = [wpc EXCEPT ![t] = "incall"]
    ELSE /\ wpc' = [wpc EXCEPT ![t] = "count"]
         /\ UNCHANGED <<log, inflight>>

\* a pool thread takes the next work item and runs worker(u): lines 345-350
PickUp(t) ==
    /\ t \in 1..num_threads
    /\ wpc[t] = "idle"
    /\ queue # <<>>
    /\ queue' = Tail(queue)
    /\ witem' = [witem EXCEPT ![t] = Head(queue)]
    /\ res' = [res EXCEPT ![t] = EmptyDict]
    /\ attempt' = [attempt EXCEPT ![t] = 1]
    /\ EnterLoop(t, Head(queue), 1)
    /\ UNCHANGED mainVars
    /\ UNCHANGED <<num_threads, idle_semaphore, submitted, fails, sleeps,
                   slept, last_error, progress, done_counter, future, completion>>
    /\ UNCHANGED notYt

\* the loop without the break of line 352
AfterCall_NoBreak(r) == "sleep"

\* lines 350-352: the adapter returns; a success breaks out of the loop
AfterCall(r) == IF GetOk(r) THEN "count" ELSE "sleep"

\* an assignment that keeps the message of an earlier failed attempt
Assigned_KeepsFirstMessage(old, r) ==
    IF ~GetOk(r) /\ Get(old, "error") \notin {NoneVal, ""}
    THEN DictSet(r, "error", Get(old, "error"))
    ELSE r

\* line 350: res = ... replaces the result of the attempt before
Assigned(old, r) == r

AdapterReturn(t, x) ==
    /\ wpc[t] = "incall"
    /\ LET i == witem[t]
           r == youtube_download_single(urls[i], x)
       IN  /\ res' = [res EXCEPT ![t] = Assigned(res[t], r)]
           /\ last_error' = [last_error EXCEPT ![i] = Get(r, "error")]
           /\ inflight' = [inflight EXCEPT ![i] = @ - 1]
           /\ fails' = [fails EXCEPT ![i] = IF GetOk(r) THEN @ ELSE @ + 1]
           /\ wpc' = [wpc EXCEPT ![t] = AfterCall(r)]
    /\ UNCHANGED mainVars
    /\ UNCHANGED <<num_threads, idle_semaphore, submitted, queue, witem, attempt,
                   log, sleeps, slept, progress, done_counter, future, completion>>
    /\ UNCHANGED notYt

\* a scheduler that hands a failed entry back to the pool's queue instead of
\* retrying it in the same worker
Backoff_Requeue(t) ==
    /\ wpc[t] = "sleep"
    /\ sleeps' = [sleeps EXCEPT ![witem[t]] = @ + 1]
    /\ slept' = [slept EXCEPT ![witem[t]] = Append(@, sleep_between * attempt[t])]
    /\ queue' = Append(queue, witem[t])
    /\ wpc' = [wpc EXCEPT ![t] = "idle"]
    /\ witem' = [witem EXCEPT ![t] = 0]
    /\ attempt' = [attempt EXCEPT ![t] = 0]
    /\ res' = [res EXCEPT ![t] = EmptyDict]
    /\ UNCHANGED mainVars
    /\ UNCHANGED <<num_threads, idle_semaphore, submitted, log, inflight, fails,
                   last_error, progress, done_counter, future, completion>>
    /\ UNCHANGED notYt

\* a delay that doubles with every attempt
BackoffSeconds_Doubling(b, a) == b * 2^(a - 1)

\* line 353: sleep_between * attempt
BackoffSeconds(b, a) == b * a

\* line 353 and the loop header: time.sleep(...) ends, the next attempt or the
\* end of the loop follows
Backoff(t) ==
    /\ wpc[t] = "sleep"
    /\ sleeps' = [sleeps EXCEPT ![witem[t]] = @ + 1]
    /\ slept' = [slept EXCEPT ![witem[t]] = Append(@, BackoffSeconds(sleep_between, attempt[t]))]
    /\ attempt' = [attempt EXCEPT ![t] = @ + 1]
    /\ EnterLoop(t, witem[t], attempt[t] + 1)
    /\ UNCHANGED mainVars
    /\ UNCHANGED <<num_threads, idle_semaphore, submitted, queue, witem, res,
                   fails, last_error, progress, done_counter, future, completion>>
    /\ UNCHANGED notYt

\* a worker that sleeps while it holds done_lock: nobody counts meanwhile
CountDone_SleeperHoldsLock(t) ==
    /\ wpc[t] = "count"
    /\ \A u \in Threads : wpc[u] # "sleep"
    /\ done_counter' = done_counter + 1
    /\ progress' = Append(progress, done_counter + 1)
    /\ wpc' = [wpc EXCEPT ![t] = "finish"]
    /\ UNCHANGED mainVars
    /\ UNCHANGED <<num_threads, idle_semaphore, submitted, queue, witem, attempt,
                   res, log, inflight, fails, sleeps, slept, last_error, future,
                   completion>>
    /\ UNCHANGED notYt

\* the increment without done_lock: the update of a worker is lost when
\* another worker is at the same statement
CountDone_Unlocked(t) ==
    /\ wpc[t] = "count"
    /\ LET n == IF \E u \in Threads \ {t} : wpc[u] = "count"
                THEN done_counter ELSE done_counter + 1
       IN  /\ done_counter' = n
           /\ progress' = Append(progress, n)
    /\ wpc' = [wpc EXCEPT ![t] = "finish"]
    /\ UNCHANGED mainVars
    /\ UNCHANGED <<num_threads, idle_semaphore, submitted, queue, witem, attempt,
                   res, log, inflight, fails, sleeps, slept, last_error, future,
                   completion>>
    /\ UNCHANGED notYt

\* lines 355-357: with done_lock: done_counter += 1
CountDone(t) ==
    /\ wpc[t] = "count"
    /\ done_counter' = done_counter + 1
    /\ progress' = Append(progress, done_counter + 1)
    /\ wpc' = [wpc EXCEPT ![t] = "finish"]
    /\ UNCHANGED mainVars
    /\ UNCHANGED <<num_threads, idle_semaphore, submitted, queue, witem, attempt,
                   res, log, inflight, fails, sleeps, slept, last_error, future,
                   completion>>
    /\ UNCHANGED notYt

\* line 360 without the `or` fallback
FinalResult_NoFallback(r, mr) ==
    IF ~GetOk(r) THEN DictSet(r, "error", Get(r, "error")) ELSE r

\* lines 359-361: the value worker() returns
FinalResult(r, mr) ==
    IF ~GetOk(r)
    THEN DictSet(r, "error", StrOr(Get(r, "error"), "Download faalde na N pogingen."))
    ELSE r

\* line 361: worker() returns, the future is done, the thread goes idle
WorkerReturn(t) ==
    /\ wpc[t] = "finish"
    /\ future' = [future EXCEPT ![witem[t]] =
                    [state |-> "done", value |-> FinalResult(res[t], max_retries)]]
    /\ completion' = Append(completion, witem[t])
    /\ idle_semaphore' = idle_semaphore + 1
    /\ wpc' = [wpc EXCEPT ![t] = "idle"]
    /\ witem' = [witem EXCEPT ![t] = 0]
    /\ attempt' = [attempt EXCEPT ![t] = 0]
    /\ res' = [res EXCEPT ![t] = EmptyDict]
    /\ UNCHANGED mainVars
    /\ UNCHANGED <<num_threads, submitted, queue, log, inflight, fails, sleeps,
                   slept, last_error, progress, done_counter>>
    /\ UNCHANGED notYt

\* sum(1 for r in results if r.get("ok"))
OkCount(rs) == Cardinality({j \in 1..Len(rs) : GetOk(rs[j])})

\* lines 371-384, leaving the with block of line 369.  Evaluating as_completed
\* raises NameError when the name is unbound; the with block then joins the
\* pool (shutdown(wait=True)) before the exception leaves the function.  With
\* the name bound the futures are collected in completion order.
LeaveBatch ==
    /\ pc_main = "submit"
    /\ submitted = total
    /\ \A i \in 1..total : Done(i)
    /\ IF as_completed_defined
       THEN LET rs == [j \in 1..total |-> future[completion[j]].value]
            IN  /\ results' = rs
                /\ outcome' = [kind |-> "returned",
                               summary |-> [total |-> total, ok |-> OkCount(rs),
                                            failed |-> total - OkCount(rs)]]
       ELSE /\ results' = results
            /\ outcome' = [kind |-> "raised", exc |-> "NameError"]
    /\ pc_main' = "done"
    /\ UNCHANGED <<SETTINGS, urls, max_workers, max_retries, poolCreated>>
    /\ UNCHANGED batchVars
    /\ UNCHANGED notYt

Next ==
    \/ RunBatchEmpty
    \/ \E us \in UrlLists : RunBatchPoolError(us)
    \/ \E us \in UrlLists : RunBatchStart(us)
    \/ Submit
    \/ \E t \in Threads : PickUp(t)
    \/ \E t \in Threads, x \in FailureKinds \cup SuccessKinds : AdapterReturn(t, x)
    \/ \E t \in Threads : Backoff(t)
    \/ \E t \in Threads : CountDone(t)
    \/ \E t \in Threads : WorkerReturn(t)
    \/ LeaveBatch

\* the batch: one youtube_batch_download call and its pool
Spec == Init /\ [][Next]_vars

\* the settings: update_settings requests, then the entry of a batch call up
\* to the creation of the pool
NextSettings ==
    \/ \E fw, fr \in FormValues : update_settings(fw, fr)
    \/ RunBatchEmpty
    \/ \E us \in UrlLists : RunBatchPoolError(us)
    \/ \E us \in UrlLists : RunBatchStart(us)

SpecSettings == InitSettings /\ [][NextSettings]_vars

\* the pool at work: a batch call with settings that create a pool, one or
\* two workers and one or three attempts per entry
PoolSettings == [max_workers : {1, 2}, max_retries : {1, 3}]

InitPool ==
    /\ \E s \in PoolSettings : InitState(s)
    /\ OthersIdle

NextPool ==
    \/ \E us \in UrlLists : RunBatchStart(us)
    \/ Submit
    \/ \E t \in Threads : PickUp(t)
    \/ \E t \in Threads, x \in FailureKinds \cup SuccessKinds : AdapterReturn(t, x)
    \/ \E t \in Threads : Backoff(t)
    \/ \E t \in Threads : CountDone(t)
    \/ \E t \in Threads : WorkerReturn(t)
    \/ LeaveBatch

SpecPool == InitPool /\ [][NextPool]_vars

\* ---------------------------------------------------- file-name helpers
\* the characters of the bounded inputs
NameChars == {"a", " ", "\t", ".", "/"}
BaseChars == {"A", " ", "-"}
Strings(cs, n) == UNION {[1..k -> cs] : k \in 0..n}

\* the characters str.strip() removes by default
Whitespace == {" ", "\t", "\n", "\r", "\f"}

RECURSIVE LStrip(_, _)
LStrip(s, cs) ==
    IF Len(s) > 0 /\ s[1] \in cs THEN LStrip(SubSeq(s, 2, Len(s)), cs) ELSE s

RECURSIVE RStrip(_, _)
RStrip(s, cs) ==
    IF Len(s) > 0 /\ s[Len(s)] \in cs THEN RStrip(SubSeq(s, 1, Len(s) - 1), cs) ELSE s

\* s.strip(cs)
Strip(s, cs) == RStrip(LStrip(s, cs), cs)

\* line 119
bad == {"<", ">", ":", "\"", "/", "\\", "|", "?", "*"}
Track == <<"t", "r", "a", "c", "k">>

\* line 120: "".join("_" if c in bad else c for c in name)
Cleaned(name) == [i \in 1..Len(name) |-> IF name[i] \in bad THEN "_" ELSE name[i]]

\* safe_filename without the fallback of lines 122-123
safe_filename_NoFallback(name) ==
    Strip(Strip(Cleaned(name), Whitespace), {"."})

\* lines 117-124
safe_filename(name) ==
    LET cleaned == Strip(Strip(Cleaned(name), Whitespace), {"."})
    IN  IF Len(cleaned) = 0 THEN Track ELSE cleaned

SafeFilenameCall ==
    /\ s_pc = "call"
    /\ s_out' = safe_filename(s_name)
    /\ s_pc' = "returned"
    /\ UNCHANGED <<s_name, p_pc, p_basename, p_out>>
    /\ UNCHANGED notName

InitSanitize ==
    /\ YtIdle /\ ConvIdle /\ FetchIdle /\ RaceIdle
    /\ s_pc = "call" /\ s_name \in Strings(NameChars, MaxNameLen) /\ s_out = <<>>
    /\ p_pc = "idle" /\ p_basename = <<>>
    /\ p_out = [artist |-> NoneStr, title |-> NoneStr]

SpecSanitize == InitSanitize /\ [][SafeFilenameCall]_vars

\* " - "
Separator == <<" ", "-", " ">>

\* the positions at which sep occurs in s
Occurrences(s, sep) ==
    {i \in 1..(Len(s) - Len(sep) + 1) : SubSeq(s, i, i + Len(sep) - 1) = sep}

Min(S) == CHOOSE x \in S : \A y \in S : x <= y

\* `s or None`
OrNone(s) == IF Len(s) = 0 THEN NoneStr ELSE s

\* lines 127-136
parse_artist_title_from_basename(basename) ==
    LET base == Strip(basename, Whitespace)
        at == Occurrences(base, Separator)
    IN  IF at # {}
        THEN LET i == Min(at)
                 artist == SubSeq(base, 1, i - 1)
                 title == SubSeq(base, i + Len(Separator), Len(base))
             IN  [artist |-> OrNone(Strip(artist, Whitespace)),
                  title |-> OrNone(Strip(title, Whitespace))]
        ELSE [artist |-> NoneStr, title |-> OrNone(base)]

ParseCall ==
    /\ p_pc = "call"
    /\ p_out' = parse_artist_title_from_basename(p_basename)
    /\ p_pc' = "returned"
    /\ UNCHANGED <<p_basename, s_pc, s_name, s_out>>
    /\ UNCHANGED notName

InitSplit ==
    /\ YtIdle /\ ConvIdle /\ FetchIdle /\ RaceIdle
    /\ s_pc = "idle" /\ s_name = <<>> /\ s_out = <<>>
    /\ p_pc = "call" /\ p_basename \in Strings(BaseChars, MaxBaseLen)
    /\ p_out = [artist |-> NoneStr, title |-> NoneStr]

SpecSplit == InitSplit /\ [][ParseCall]_vars

\* ------------------------------------------------------- batch_convert
\* line 233: max_retries=3
ConvMaxRetries == 3

\* the entries an input folder may hold, listed in the order of their names
\* (the order sorted() gives Path objects of one folder); album.mp4 is a
\* sub-directory, the others are files
Candidates ==
    << [stem |-> "album", suffix |-> ".mp4",  kind |-> "dir"],
       [stem |-> "notes", suffix |-> ".txt",  kind |-> "file"],
       [stem |-> "song",  suffix |-> ".m4a",  kind |-> "file"],
       [stem |-> "song",  suffix |-> ".webm", kind |-> "file"],
       [stem |-> "take",  suffix |-> ".OPUS", kind |-> "file"] >>

Folders ==
    {[exists |-> FALSE, entries |-> {}]}
        \cup {[exists |-> TRUE, entries |-> S] : S \in SUBSET (1..Len(Candidates))}

\* line 220
VALID_EXTS == {".m4a", ".webm", ".mp4", ".opus"}

\* str.lower() on the suffixes above
Lower(x) == IF x = ".OPUS" THEN ".opus" ELSE x

\* line 221: the condition of the generator
Eligible(n) == Lower(Candidates[n].suffix) \in VALID_EXTS

\* line 221: sorted(...) of a set of entries
RECURSIVE Sorted(_)
Sorted(S) == IF S = {} THEN <<>> ELSE <<Min(S)>> \o Sorted(S \ {Min(S)})

\* a folder check that returns the summary without a message
ConvertMissing_NoMessage ==
    /\ c_pc = "start"
    /\ ~c_folder.exists
    /\ c_outcome' = "returned"
    /\ c_pc' = "done"
    /\ UNCHANGED <<c_outputs, c_folder, c_files, c_idx, c_result, e_attempt, e_log, e_sleeps, e_ret>>
    /\ UNCHANGED notConv

\* line 215: the folder check fails and the summary is returned
ConvertMissing ==
    /\ c_pc = "start"
    /\ ~c_folder.exists
    /\ c_result' = [c_result EXCEPT !.errors = Append(@, [msg |-> "Inputfolder bestaat niet", input |-> 0])]
    /\ c_outcome' = "returned"
    /\ c_pc' = "done"
    /\ UNCHANGED <<c_outputs, c_folder, c_files, c_idx, e_attempt, e_log, e_sleeps, e_ret>>
    /\ UNCHANGED notConv

\* lines 218-227: the folder is enumerated; without files the summary is
\* returned (ensure_folder never raises)
ConvertEnumerate ==
    /\ c_pc = "start"
    /\ c_folder.exists
    /\ LET files == Sorted({n \in c_folder.entries : Eligible(n)})
       IN  /\ c_files' = files
           /\ c_result' = [c_result EXCEPT !.files_found = Len(files)]
           /\ c_idx' = 1
           /\ IF Len(files) = 0
              THEN c_pc' = "done" /\ c_outcome' = "returned"
              ELSE c_pc' = "loop" /\ UNCHANGED c_outcome
    /\ UNCHANGED <<c_outputs, c_folder, e_attempt, e_log, e_sleeps, e_ret>>
    /\ UNCHANGED notConv

\* range(1, max_retries + 1) still has the value a
ConvInRange_OneMore(a, mr) == a <= mr + 1

ConvInRange(a, mr) == a <= mr

\* lines 229-233 and 151-153: convert_to_mp3_normalized is entered for the
\* next file
ConvertNext ==
    /\ c_pc = "loop"
    /\ e_attempt' = 1
    /\ e_log' = <<>>
    /\ e_sleeps' = <<>>
    /\ e_ret' = FALSE
    /\ c_pc' = IF ConvInRange(1, ConvMaxRetries) THEN "encode" ELSE "row"
    /\ UNCHANGED <<c_outputs, c_folder, c_files, c_idx, c_result, c_outcome>>
    /\ UNCHANGED notConv

\* what subprocess.check_call(cmd) does: exit status 0, CalledProcessError,
\* FileNotFoundError, or another OSError (permission denied, exec format)
EncoderOutcomes == {"ok", "exit_nonzero", "not_found", "os_error"}

\* a handler that treats a missing binary like a failed run
AfterInvoke_RetryNotFound(x) ==
    CASE x = "ok"           -> "row"
      [] x = "exit_nonzero" -> "sleep"
      [] x = "not_found"    -> "sleep"
      [] x = "os_error"     -> "done"

\* lines 186-196: where the invocation leaves the caller
AfterInvoke(x) ==
    CASE x = "ok"           -> "row"
      [] x = "exit_nonzero" -> "sleep"
      [] x = "not_found"    -> "row"
      [] x = "os_error"     -> "done"

\* an encoder that leaves an existing output file alone
Written_KeepsExisting(out, st, n) == IF out[st] # 0 THEN out ELSE [out EXCEPT ![st] = n]

\* lines 163 and 184: ffmpeg -y writes stem.mp3, replacing a file of that name
Written(out, st, n) == [out EXCEPT ![st] = n]

\* lines 186-196: one invocation of the encoder; an exception that no except
\* clause names leaves convert_to_mp3_normalized and batch_convert
EncoderInvoke(x) ==
    /\ c_pc = "encode"
    /\ e_log' = Append(e_log, x)
    /\ e_ret' = (x = "ok")
    /\ c_pc' = AfterInvoke(x)
    /\ c_outcome' = IF x = "os_error" THEN "raised" ELSE c_outcome
    /\ c_outputs' = IF x = "ok"
                    THEN Written(c_outputs, Candidates[c_files[c_idx]].stem, c_files[c_idx])
                    ELSE c_outputs
    /\ UNCHANGED <<c_folder, c_files, c_idx, c_result, e_attempt, e_sleeps>>
    /\ UNCHANGED notConv

\* line 193 and the loop header: time.sleep(1.0 * attempt) ends; the next
\* attempt follows, or the loop is over and line 198 returns False
EncoderSleep ==
    /\ c_pc = "sleep"
    /\ e_sleeps' = Append(e_sleeps, e_attempt)
    /\ e_attempt' = e_attempt + 1
    /\ e_ret' = FALSE
    /\ c_pc' = IF ConvInRange(e_attempt + 1, ConvMaxRetries) THEN "encode" ELSE "row"
    /\ UNCHANGED <<c_outputs, c_folder, c_files, c_idx, c_result, c_outcome, e_log>>
    /\ UNCHANGED notConv

\* lines 234-243
Row(n, ok) ==
    [input |-> n,
     output |-> [stem |-> Candidates[n].stem, suffix |-> ".mp3"],
     status |-> IF ok THEN "OK" ELSE "FOUT"]

\* a summary that counts every job as converted
Recorded_CountsAll(r, n, ok) ==
    [r EXCEPT !.details = Append(@, Row(n, ok)),
              !.converted = @ + 1,
              !.errors = IF ok THEN @ ELSE Append(@, [msg |-> "Fout bij converteren", input |-> n])]

\* lines 239-243: result after the row of entry n
Recorded(r, n, ok) ==
    [r EXCEPT !.details = Append(@, Row(n, ok)),
              !.converted = IF ok THEN @ + 1 ELSE @,
              !.errors = IF ok THEN @ ELSE Append(@, [msg |-> "Fout bij converteren", input |-> n])]

\* lines 234-245: the row is recorded; after the last file the summary is
\* returned
RecordRow ==
    /\ c_pc = "row"
    /\ c_result' = Recorded(c_result, c_files[c_idx], e_ret)
    /\ c_idx' = c_idx + 1
    /\ IF c_idx + 1 > Len(c_files)
       THEN c_pc' = "done" /\ c_outcome' = "returned"
       ELSE c_pc' = "loop" /\ UNCHANGED c_outcome
    /\ UNCHANGED <<c_outputs, c_folder, c_files, e_attempt, e_log, e_sleeps, e_ret>>
    /\ UNCHANGED notConv

InitConvert ==
    /\ YtIdle /\ NameIdle /\ FetchIdle /\ RaceIdle
    /\ c_pc = "start"
    /\ c_folder \in Folders
    /\ c_files = <<>>
    /\ c_idx = 0
    /\ c_result = EmptyResult
    /\ c_outcome = "none"
    /\ c_outputs = NoOutputs
    /\ e_attempt = 0
    /\ e_log = <<>>
    /\ e_sleeps = <<>>
    /\ e_ret = FALSE

NextConvert ==
    \/ ConvertMissing
    \/ ConvertEnumerate
    \/ ConvertNext
    \/ \E x \in EncoderOutcomes : EncoderInvoke(x)
    \/ EncoderSleep
    \/ RecordRow

SpecConvert == InitConvert /\ [][NextConvert]_vars

\* ---------------------------------- youtube_download_single, step by step
MaxTitleLen == 2
TitleChars == {"a", "/"}
StemChars == {"a", "_"}
Artists == {<<>>, <<"b">>}

\* the answers of the service: the first non-empty of track and title, the
\* first non-empty of artist, uploader and channel, and the stem of
\* ydl.prepare_filename(info), which the service chooses
Infos ==
    [title : Strings(TitleChars, MaxTitleLen),
     artist : Artists,
     stem : Strings(StemChars, MaxTitleLen) \ {<<>>}]

\* lines 297-302
NiceBase(info) ==
    safe_filename(IF info.artist # <<>>
                  THEN info.artist \o Separator \o info.title
                  ELSE IF info.title # <<>> THEN info.title ELSE Track)

\* a handler that keeps the new name after a failed rename
RenameFallback_KeepsNew(orig, new) == new

\* line 310: new_path = orig_path
RenameFallback(orig, new) == orig

\* lines 278-282 and 322-326: extract_info raises or returns None; the
\* handler records the message and res is returned
ExtractFails ==
    /\ f_pc = "call"
    /\ f_res' = [f_res EXCEPT !.error = "ERR"]
    /\ f_pc' = "returned"
    /\ UNCHANGED <<f_info, f_files, f_orig, f_new, f_renames>>
    /\ UNCHANGED notFetch

\* lines 280-305: the download is written under the service's name and the
\* display name is computed
Extract ==
    /\ f_pc = "call"
    /\ f_files' = f_files \cup {f_info.stem}
    /\ f_orig' = f_info.stem
    /\ f_new' = NiceBase(f_info)
    /\ f_pc' = IF NiceBase(f_info) # f_info.stem THEN "rename" ELSE "update"
    /\ UNCHANGED <<f_info, f_renames, f_res>>
    /\ UNCHANGED notFetch

\* lines 306-310: orig_path.rename(new_path) succeeds or raises
Rename(ok) ==
    /\ f_pc = "rename"
    /\ f_renames' = Append(f_renames, [from |-> f_orig, to |-> f_new, ok |-> ok])
    /\ IF ok
       THEN /\ f_files' = (f_files \ {f_orig}) \cup {f_new}
            /\ UNCHANGED f_new
       ELSE /\ f_new' = RenameFallback(f_orig, f_new)
            /\ UNCHANGED f_files
    /\ f_pc' = "update"
    /\ UNCHANGED <<f_info, f_orig, f_res>>
    /\ UNCHANGED notFetch

\* lines 312-326
UpdateRes ==
    /\ f_pc = "update"
    /\ f_res' = [f_res EXCEPT !.ok = TRUE,
                              !.filename = f_new,
                              !.title = f_info.title,
                              !.artist = OrNone(f_info.artist)]
    /\ f_pc' = "returned"
    /\ UNCHANGED <<f_info, f_files, f_orig, f_new, f_renames>>
    /\ UNCHANGED notFetch

InitFetch ==
    /\ YtIdle /\ NameIdle /\ ConvIdle /\ RaceIdle
    /\ f_pc = "call"
    /\ f_info \in Infos
    /\ f_files = {}
    /\ f_orig = <<>>
    /\ f_new = <<>>
    /\ f_renames = <<>>
    /\ f_res = FreshRes

NextFetch ==
    \/ ExtractFails
    \/ Extract
    \/ \E ok \in BOOLEAN : Rename(ok)
    \/ UpdateRes

SpecFetch == InitFetch /\ [][NextFetch]_vars

\* ------------------------- two youtube_download_single calls, one folder
\* a rename that leaves an existing target alone and drops the source
Moved_KeepsTarget(folder, from, to) ==
    IF folder[to] # 0
    THEN [folder EXCEPT ![from] = 0]
    ELSE [folder EXCEPT ![to] = folder[from], ![from] = 0]

\* line 307: orig_path.rename(new_path) succeeded
Moved(folder, from, to) == [folder EXCEPT ![to] = folder[from], ![from] = 0]

\* line 307: whether orig_path.rename(new_path) can succeed: the source must
\* exist, and on Windows the target must not
CanRename(folder, from, to, posix) == folder[from] # 0 /\ (posix \/ folder[to] = 0)

\* lines 280-305: the download is in the folder under the service's name,
\* holding this call's data (written, or written over another call's file)
\* or, when the service skips a file that is already there, the data of the
\* call that wrote it
RaceExtract(w, c) ==
    /\ r_pc[w] = "call"
    /\ c = w \/ c = r_folder[r_info[w].orig]
    /\ r_folder' = [r_folder EXCEPT ![r_info[w].orig] = c]
    /\ r_new' = [r_new EXCEPT ![w] = r_info[w].nice]
    /\ r_pc' = [r_pc EXCEPT ![w] = IF r_info[w].nice # r_info[w].orig THEN "rename" ELSE "update"]
    /\ UNCHANGED <<r_posix, r_info, r_renamed, r_order, r_res>>
    /\ UNCHANGED notRace

\* lines 306-310: orig_path.rename(new_path) succeeds, or raises and new_path
\* falls back to orig_path
RaceRename(w, ok) ==
    /\ r_pc[w] = "rename"
    /\ ok => CanRename(r_folder, r_info[w].orig, r_new[w], r_posix)
    /\ IF ok
       THEN /\ r_folder' = Moved(r_folder, r_info[w].orig, r_new[w])
            /\ r_order' = Append(r_order, w)
            /\ r_renamed' = [r_renamed EXCEPT ![w] = "ok"]
            /\ UNCHANGED r_new
       ELSE /\ r_new' = [r_new EXCEPT ![w] = RenameFallback(r_info[w].orig, r_new[w])]
            /\ r_renamed' = [r_renamed EXCEPT ![w] =
                                IF CanRename(r_folder, r_info[w].orig, r_new[w], r_posix)
                                THEN "failed" ELSE "refused"]
            /\ UNCHANGED <<r_folder, r_order>>
    /\ r_pc' = [r_pc EXCEPT ![w] = "update"]
    /\ UNCHANGED <<r_posix, r_info, r_res>>
    /\ UNCHANGED notRace

\* lines 312-326
RaceUpdateRes(w) ==
    /\ r_pc[w] = "update"
    /\ r_res' = [r_res EXCEPT ![w] = [@ EXCEPT !.ok = TRUE, !.filename = r_new[w]]]
    /\ r_pc' = [r_pc EXCEPT ![w] = "returned"]
    /\ UNCHANGED <<r_posix, r_info, r_new, r_folder, r_renamed, r_order>>
    /\ UNCHANGED notRace

InitRace ==
    /\ YtIdle /\ NameIdle /\ ConvIdle /\ FetchIdle
    /\ r_posix \in BOOLEAN
    /\ r_info \in [Calls -> [orig : FileNames, nice : FileNames]]
    /\ r_pc = [w \in Calls |-> "call"]
    /\ r_new = [w \in Calls |-> "x"]
    /\ r_folder = [n \in FileNames |-> 0]
    /\ r_renamed = [w \in Calls |-> "no"]
    /\ r_order = <<>>
    /\ r_res = [w \in Calls |-> [ok |-> FALSE, filename |-> NoneVal, error |-> NoneVal]]

NextRace ==
    \/ \E w \in Calls, c \in Calls : RaceExtract(w, c)
    \/ \E w \in Calls, ok \in BOOLEAN : RaceRename(w, ok)
    \/ \E w \in Calls : RaceUpdateRes(w)

SpecRace == InitRace /\ [][NextRace]_vars

\* ================================================================ claims
ValidSettings == max_workers >= 1 /\ max_retries >= 1
Returned == pc_main = "done" /\ outcome.kind = "returned"
Value(i) == future[i].value
InQueue(i) == \E j \in 1..Len(queue) : queue[j] = i
Held(i) == \E t \in Threads : witem[t] = i
\* adapter calls for entry i that returned a success
Succeeded(i) == Len(log[i]) - inflight[i] - fails[i]
Count(S) == Cardinality(S)

\* C1: for a non-empty identifier list the call ends with a returned summary
\* whose total is the length of the list and whose ok and failed counts add
\* up to it, ok being the number of returned results flagged successful.
C1_SummaryCounts ==
    (pc_main = "done" /\ urls # <<>> /\ ValidSettings) =>
        /\ outcome.kind = "returned"
        /\ outcome.summary.total = Len(urls)
        /\ outcome.summary.ok + outcome.summary.failed = outcome.summary.total
        /\ outcome.summary.ok = OkCount(results)

\* C2: an entry whose every adapter call failed (max_retries >= 1) got exactly
\* max_retries calls, and its final result is flagged failed and carries a
\* non-empty error message; no entry ever gets more than max_retries calls.
C2_AlwaysFailing ==
    \A i \in Items :
        /\ Len(log[i]) <= Max(max_retries, 0)
        /\ (Done(i) /\ max_retries >= 1 /\ fails[i] = Len(log[i])) =>
              /\ Len(log[i]) = max_retries
              /\ ~GetOk(Value(i))
              /\ Get(Value(i), "error") \notin {NoneVal, ""}

\* an entry failed max_retries >= 2 times and its last failure had no message
C2_Witness ==
    \E i \in Items :
        /\ Done(i) /\ max_retries >= 2 /\ fails[i] = max_retries
        /\ Get(Value(i), "error") = "Download faalde na N pogingen."

\* C3: an entry whose adapter fails k times and then succeeds gets k+1 calls:
\* the success is its last call, k < max_retries, k sleeps were taken (none
\* when k = 0), and the entry is reported successful; an entry is reported
\* successful only after such a success.
C3_StopAtFirstSuccess ==
    \A i \in Items :
        /\ Succeeded(i) <= 1
        /\ Succeeded(i) = 1 =>
              /\ inflight[i] = 0
              /\ Len(log[i]) = fails[i] + 1
              /\ fails[i] < max_retries
              /\ sleeps[i] = fails[i]
              /\ Done(i) => GetOk(Value(i))
        /\ (Done(i) /\ GetOk(Value(i))) => Succeeded(i) = 1

\* one entry succeeded at its first call without a sleep, another after one
\* failure and one sleep
C3_Witness ==
    \E i, j \in Items :
        /\ Done(i) /\ GetOk(Value(i)) /\ fails[i] = 0 /\ sleeps[i] = 0
        /\ Len(log[i]) = 1
        /\ Done(j) /\ GetOk(Value(j)) /\ fails[j] = 1 /\ Len(log[j]) = 2

\* C4: when the call ends for a non-empty list, it has returned one result per
\* list entry, and the result identifiers are the submitted identifiers as a
\* multiset.
C4_OneResultPerEntry ==
    (pc_main = "done" /\ urls # <<>> /\ ValidSettings) =>
        /\ outcome.kind = "returned"
        /\ Len(results) = Len(urls)
        /\ \A u \in Identifiers :
              Count({j \in 1..Len(results) : Get(results[j], "url") = u})
                  = Count({i \in 1..Len(urls) : urls[i] = u})

\* C5: with every adapter call returning, the call on a non-empty list ends
\* by returning the results and summary, never by raising, and every entry
\* was processed.
C5_ReturnsNotRaises ==
    (pc_main = "done" /\ urls # <<>> /\ ValidSettings) =>
        /\ \A i \in 1..total : Done(i)
        /\ outcome.kind = "returned"

\* C6: no result of the adapter, of a worker, or of the batch is flagged
\* successful and carries an error message.
ResultDicts ==
    {res[t] : t \in Threads}
        \cup {Value(i) : i \in {k \in Items : Done(k)}}
        \cup {results[j] : j \in 1..Len(results)}

C6_OkExcludesError ==
    \A d \in ResultDicts : ~(GetOk(d) /\ Get(d, "error") # NoneVal)

\* a success after a failed rename beside a failure with its message
C6_Witness ==
    /\ \E t \in Threads : GetOk(res[t]) /\ Get(res[t], "filename") = "orig"
    /\ \E i \in Items : Done(i) /\ ~GetOk(Value(i)) /\ Get(Value(i), "error") = "ERR"

\* C7: the entries being processed by a worker never outnumber max_workers;
\* every other submitted entry waits in the queue or is finished.
C7_BoundedWorkers ==
    poolCreated =>
        /\ Count({i \in Items : Held(i)}) <= max_workers
        /\ Count({t \in Threads : wpc[t] # "idle"}) <= max_workers
        /\ \A i \in 1..submitted : InQueue(i) \/ Held(i) \/ Done(i)

\* every worker is busy, one sleeping, and an entry waits in the queue
C7_Witness ==
    /\ poolCreated /\ queue # <<>>
    /\ Count({t \in Threads : wpc[t] # "idle"}) = max_workers
    /\ \E t \in Threads : wpc[t] = "sleep"

\* C8: an entry is held by one worker from pick-up to its result: at most one
\* thread holds it, at most one of its calls is in flight, its calls carry
\* the attempt numbers 1, 2, ... in order, a call is started only by the
\* holder with none in flight, the holder lets go only when the entry is
\* done, and the entry never re-enters the queue.
C8_State ==
    \A i \in Items :
        /\ Count({t \in Threads : witem[t] = i}) <= 1
        /\ inflight[i] \in {0, 1}
        /\ \A n \in 1..Len(log[i]) : log[i][n] = n
        /\ (Held(i) \/ Done(i) \/ log[i] # <<>>) => ~InQueue(i)

C8_Step ==
    /\ \A t \in Threads :
          (witem[t] # 0 /\ witem'[t] # witem[t]) =>
              future'[witem[t]].state = "done"
    /\ \A i \in Items :
          log'[i] # log[i] =>
              /\ inflight[i] = 0
              /\ \E t \in Threads : witem'[t] = i /\ attempt'[t] = Len(log'[i])
    /\ \A i \in Items : (InQueue(i)' /\ ~InQueue(i)) => (i = submitted + 1)

C8_OneWorkerPerEntry == []C8_State /\ [][C8_Step]_vars

\* a thread is at its second attempt for one entry while another thread
\* holds another entry
C8_Witness ==
    \E t, u \in Threads :
        /\ t # u /\ wpc[t] = "incall" /\ attempt[t] = 2
        /\ witem[u] # 0 /\ witem[u] # witem[t]

\* C9: the call on an empty list returns no results and the all-zero summary,
\* creates no pool and no thread, calls no adapter and sleeps never.
C9_EmptyList ==
    (pc_main = "done" /\ urls = <<>>) =>
        /\ outcome.kind = "returned"
        /\ results = <<>>
        /\ outcome.summary = [total |-> 0, ok |-> 0, failed |-> 0]
        /\ ~poolCreated /\ num_threads = 0
        /\ \A i \in Items : log[i] = <<>> /\ sleeps[i] = 0

\* the empty call has returned, here with a stored max_workers of -1
C9_Witness == Returned /\ urls = <<>> /\ SETTINGS.max_workers = -1

\* C10: whatever integers update_settings stored, a batch call on a non-empty
\* list runs with max_workers >= 1 and max_retries >= 1.
C10_RunSettingsValid ==
    (pc_main # "idle" /\ urls # <<>>) => ValidSettings

\* C18: safe_filename returns a non-empty string without any of the nine
\* forbidden characters, and "track" for a name made only of whitespace.
C18_SafeName ==
    s_pc = "returned" =>
        /\ Len(s_out) > 0
        /\ \A i \in 1..Len(s_out) : s_out[i] \notin bad
        /\ (\A i \in 1..Len(s_name) : s_name[i] \in Whitespace) => s_out = Track

\* a name with a forbidden character and a dot to strip was sanitized
C18_Witness ==
    /\ s_pc = "returned"
    /\ s_name = <<" ", "/", ".">>
    /\ s_out = <<"_">>

\* the operation the specification names: replace, trim whitespace, remove
\* trailing dots, fall back to "track"
SanitizeReference(name) ==
    LET trimmed == RStrip(Strip(Cleaned(name), Whitespace), {"."})
    IN  IF Len(trimmed) = 0 THEN Track ELSE trimmed

\* C19: safe_filename returns what the reference operation returns (leading
\* dots kept), and the result neither begins nor ends with whitespace nor
\* ends with a dot.
C19_MatchesReference ==
    s_pc = "returned" =>
        /\ s_out = SanitizeReference(s_name)
        /\ s_out[1] \notin Whitespace
        /\ s_out[Len(s_out)] \notin Whitespace
        /\ s_out[Len(s_out)] # "."

\* the split the specification names: at the first " - " of the base name
\* itself, both parts trimmed, an empty part none; without a separator the
\* (trimmed) base name is the title
SplitReference(basename) ==
    LET at == Occurrences(basename, Separator)
    IN  IF at # {}
        THEN LET i == Min(at)
             IN  [artist |-> OrNone(Strip(SubSeq(basename, 1, i - 1), Whitespace)),
                  title |-> OrNone(Strip(SubSeq(basename, i + 3, Len(basename)),
                                         Whitespace))]
        ELSE [artist |-> NoneStr, title |-> OrNone(Strip(basename, Whitespace))]

\* C20: parse_artist_title_from_basename splits every base name at its first
\* " - ": trimmed text before it is the artist, the trimmed remainder the
\* title, an empty part none; without " - " the artist is none and the string
\* is the title.
C20_SplitAtFirstSeparator ==
    p_pc = "returned" => p_out = SplitReference(p_basename)


\* ---- C11 ----
\* A rename is attempted only when the display name differs from the name
\* the service gave the file, and at most once. When it failed, the result
\* returned has ok True, no error, and the service's name as filename; in
\* every successful result the file name reported is that of a file in the
\* download folder.
C11_RenameFailureNotFatal ==
    /\ Len(f_renames) <= 1
    /\ \A k \in 1..Len(f_renames) :
           /\ f_renames[k].from = f_info.stem
           /\ f_renames[k].to = NiceBase(f_info)
           /\ f_renames[k].to # f_renames[k].from
    /\ (f_pc \in {"update", "returned"} /\ NiceBase(f_info) = f_info.stem)
           => f_renames = <<>>
    /\ (f_pc = "returned" /\ f_renames # <<>> /\ ~f_renames[1].ok)
           => /\ f_res.ok
              /\ f_res.error = NoneVal
              /\ f_res.filename = f_info.stem
    /\ (f_pc = "returned" /\ f_res.ok) => f_res.filename \in f_files

C11_Witness ==
    /\ f_pc = "returned"
    /\ f_renames # <<>>
    /\ ~f_renames[1].ok
    /\ f_res.ok
    /\ f_res.filename = <<"a", "_">>

\* ---- C12 ----
\* convert_to_mp3_normalized invokes the encoder at most max_retries times;
\* only the last invocation can be the one that exits successfully; when it
\* has returned, the value is True exactly when an invocation exited
\* successfully; after max_retries invocations with a non-zero exit it has
\* returned False.
C12_RetriesUntilSuccess ==
    /\ Len(e_log) <= ConvMaxRetries
    /\ \A j \in 1..(Len(e_log) - 1) : e_log[j] # "ok"
    /\ c_pc = "row" => (e_ret <=> (e_log # <<>> /\ e_log[Len(e_log)] = "ok"))
    /\ (/\ Len(e_log) = ConvMaxRetries
        /\ \A j \in 1..Len(e_log) : e_log[j] = "exit_nonzero"
        /\ c_pc # "sleep")
       => (c_pc \in {"row", "loop", "done"} /\ ~e_ret)

C12_Witness ==
    /\ c_pc = "row"
    /\ e_log = <<"exit_nonzero", "exit_nonzero", "ok">>
    /\ e_ret

\* ---- C13 ----
\* An invocation that fails because the binary is not found is the last one
\* of its call: convert_to_mp3_normalized has returned False, and the only
\* sleeps taken are those of the invocations before it.
C13_MissingBinaryReturnsAtOnce ==
    \A j \in 1..Len(e_log) :
        e_log[j] = "not_found" =>
            /\ j = Len(e_log)
            /\ c_pc \in {"row", "loop", "done"}
            /\ ~e_ret
            /\ Len(e_sleeps) = j - 1

C13_Witness ==
    /\ c_pc = "row"
    /\ e_log = <<"exit_nonzero", "not_found">>
    /\ e_sleeps = <<1>>

\* ---- C14 ----
\* batch_convert never ends with an exception: however an encoder invocation
\* fails, every file of the folder gets its row and the summary is returned.
C14_NoToolFailureEscapes ==
    /\ c_outcome # "raised"
    /\ (c_pc = "done" /\ c_folder.exists)
           => Len(c_result.details) = Len(c_files)

\* ---- C15 ----
\* For an input folder that does not exist batch_convert returns a summary
\* with files_found 0, converted 0, no rows and exactly one error message,
\* and the encoder is never invoked.
C15_MissingFolder ==
    ~c_folder.exists =>
        /\ c_outcome # "raised"
        /\ c_pc \in {"start", "done"}
        /\ e_log = <<>>
        /\ c_pc = "done" =>
              /\ c_outcome = "returned"
              /\ c_result.files_found = 0
              /\ c_result.converted = 0
              /\ c_result.details = <<>>
              /\ Len(c_result.errors) = 1

C15_Witness ==
    /\ ~c_folder.exists
    /\ c_pc = "done"
    /\ c_outcome = "returned"

\* ---- C16 ----
\* the files directly in the folder whose extension is in the allow-list, in
\* the order of their names
JobReference(folder) ==
    Sorted({n \in folder.entries :
                /\ Candidates[n].kind = "file"
                /\ Lower(Candidates[n].suffix) \in VALID_EXTS})

\* The rows of a returned summary of an existing folder are, in order, one
\* per file of the folder with an extension of the allow-list, and
\* files_found is their number.
C16_JobsAreTheListedFiles ==
    (c_outcome = "returned" /\ c_folder.exists) =>
        /\ [i \in 1..Len(c_result.details) |-> c_result.details[i].input]
               = JobReference(c_folder)
        /\ c_result.files_found = Len(JobReference(c_folder))

\* ---- C17 ----
IsFailed(row) == row.status = "FOUT"

IsConverted(row) == row.status = "OK"

Inputs(rows) == [i \in 1..Len(rows) |-> rows[i].input]

\* With an existing folder, converted is the number of OK rows, errors holds
\* one conversion message per FOUT row, naming its input, in row order, and
\* converted + len(errors) is the number of rows so far; in a returned
\* summary that number is files_found.
C17_SummaryDerivedFromRows ==
    c_folder.exists =>
        /\ c_result.converted = Len(SelectSeq(c_result.details, IsConverted))
        /\ Inputs(c_result.errors) = Inputs(SelectSeq(c_result.details, IsFailed))
        /\ \A k \in 1..Len(c_result.errors) :
               c_result.errors[k].msg = "Fout bij converteren"
        /\ c_result.converted + Len(c_result.errors) = Len(c_result.details)
        /\ c_outcome = "returned" => Len(c_result.details) = c_result.files_found

C17_Witness ==
    /\ c_outcome = "returned"
    /\ Len(c_result.details) = 3
    /\ c_result.details[1].status = "FOUT"
    /\ c_result.details[2].status = "OK"
    /\ c_result.details[3].status = "FOUT"
    /\ c_result.converted = 1


\* ---- C21 ----
\* Every sleep lies between two adapter calls for the same entry: an entry
\* whose worker has returned after n >= 1 adapter calls had n - 1 sleeps.
C21_SleepsBetweenAttempts ==
    \A i \in 1..total :
        (Done(i) /\ log[i] # <<>>) => sleeps[i] = Len(log[i]) - 1

\* ---- C22 ----
\* The sleep after failed attempt number a lasts sleep_between * a seconds:
\* the k-th sleep of an entry follows its k-th failed attempt and lasts
\* sleep_between * k.
C22_LinearBackoff ==
    \A i \in Items :
        /\ Len(slept[i]) = sleeps[i]
        /\ Len(slept[i]) <= fails[i]
        /\ \A k \in 1..Len(slept[i]) : slept[i][k] = sleep_between * k

C22_Witness ==
    /\ fails[1] = 3
    /\ slept[1] = <<2, 4, 6>>


\* ---- C23 ----
\* A final result that is not ok belongs to an entry whose max_retries
\* attempts all failed; its error is the message of the last attempt, and
\* the generic message exactly when that attempt left none or an empty one.
C23_LastFailureMessage ==
    \A i \in 1..total :
        (Done(i) /\ ~GetOk(Value(i))) =>
            /\ fails[i] = max_retries
            /\ Len(log[i]) = max_retries
            /\ Get(Value(i), "error") =
                   IF last_error[i] \in {NoneVal, ""}
                   THEN "Download faalde na N pogingen."
                   ELSE last_error[i]

C23_Witness ==
    /\ Done(1)
    /\ fails[1] = 3
    /\ last_error[1] = ""
    /\ Get(Value(1), "error") = "Download faalde na N pogingen."
    /\ total = 2
    /\ Done(2)
    /\ fails[2] = 3
    /\ Get(Value(2), "error") = "ERR"


\* ---- C24 ----
\* The call for a non-empty list returns its results in the order in which
\* the workers returned: the j-th result is the value of the j-th worker to
\* finish.
C24_CompletionOrder ==
    (pc_main = "done" /\ total > 0) =>
        /\ outcome.kind = "returned"
        /\ Len(results) = Len(completion)
        /\ \A j \in 1..Len(results) : results[j] = Value(completion[j])


\* ---- C25 ----
\* A sleeping worker holds nothing another worker needs: while a worker
\* sleeps, every other worker's next step (taking an entry from the queue,
\* the return of its adapter call with any outcome, the counter update, its
\* return) can be taken at once.
C25_SleepBlocksNobody ==
    \A u \in Threads : wpc[u] = "sleep" =>
        \A t \in Threads \ {u} :
            /\ wpc[t] = "incall" =>
                   \A x \in FailureKinds \cup SuccessKinds : ENABLED AdapterReturn(t, x)
            /\ wpc[t] = "count" => ENABLED CountDone(t)
            /\ wpc[t] = "finish" => ENABLED WorkerReturn(t)
            /\ (wpc[t] = "idle" /\ t <= num_threads /\ queue # <<>>) => ENABLED PickUp(t)

\* the first entry is in its first sleep while the second, picked up by the
\* other worker, has succeeded at once and is about to be returned
C25_Witness ==
    \E u, t \in Threads :
        /\ wpc[u] = "sleep" /\ witem[u] = 1 /\ sleeps[1] = 0
        /\ wpc[t] = "finish" /\ witem[t] = 2
        /\ GetOk(res[t]) /\ log[2] = <<1>>


\* ---- C29 ----
\* the entries whose worker has passed the counter update
Counted(i) == Done(i) \/ \E t \in Threads : witem[t] = i /\ wpc[t] = "finish"

C29_State ==
    /\ done_counter = Cardinality({i \in 1..total : Counted(i)})
    /\ progress = [k \in 1..done_counter |-> k]
    /\ \A i \in 1..total : Counted(i) =>
           /\ inflight[i] = 0
           /\ Succeeded(i) = 1 \/ Len(log[i]) = max_retries
    /\ (submitted = total /\ \A i \in 1..total : Done(i)) => done_counter = total

C29_Step ==
    /\ done_counter' \in {done_counter, done_counter + 1}
    /\ \A i \in 1..total : Counted(i) => (Counted(i)' /\ log'[i] = log[i])

\* done_counter is the number of entries whose worker is past its last
\* attempt, each counted once; the values logged are 1, 2, ... in this order,
\* each once; the counter never decreases, no counted entry is attempted
\* again, and when all workers have finished the counter is total.
C29_CounterCountsEntries == []C29_State /\ [][C29_Step]_vars

C29_Witness ==
    /\ pc_main = "done"
    /\ max_workers = 2
    /\ total = 2
    /\ done_counter = 2
    /\ progress = <<1, 2>>
    /\ completion = <<2, 1>>


\* ---- C27 ----
\* The k-th sleep of a convert_to_mp3_normalized call follows its k-th
\* invocation, which exited non-zero, and lasts 1.0 * k seconds; every sleep
\* is followed by a further invocation, so a call that has returned made
\* more invocations than sleeps.
C27_SleepThenRetry ==
    /\ Len(e_sleeps) <= Len(e_log)
    /\ \A k \in 1..Len(e_sleeps) : e_sleeps[k] = k /\ e_log[k] = "exit_nonzero"
    /\ c_pc = "row" => Len(e_sleeps) < Len(e_log)


\* ---- C28 ----
\* the input of the last OK row with stem st, 0 without such a row
RECURSIVE LastConverted(_, _)
LastConverted(rows, st) ==
    IF rows = <<>> THEN 0
    ELSE LET row == rows[Len(rows)]
         IN  IF row.status = "OK" /\ row.output.stem = st
             THEN row.input
             ELSE LastConverted(SubSeq(rows, 1, Len(rows) - 1), st)

\* Every row's output is the stem of its input with .mp3. In a summary
\* returned for an existing folder the file left under a stem is the one encoded for the last OK row
\* with that stem, also when several rows share it, and the errors are
\* those of the FOUT rows only.
C28_CollisionOverwrites ==
    /\ \A k \in 1..Len(c_result.details) :
           c_result.details[k].output =
               [stem |-> Candidates[c_result.details[k].input].stem, suffix |-> ".mp3"]
    /\ (c_outcome = "returned" /\ c_folder.exists) =>
           /\ \A st \in Stems : c_outputs[st] = LastConverted(c_result.details, st)
           /\ Len(c_result.errors) = Len(SelectSeq(c_result.details, IsFailed))

\* song.m4a and song.webm are both converted; song.mp3 is that of song.webm
C28_Witness ==
    /\ c_outcome = "returned"
    /\ c_folder.entries = {3, 4}
    /\ Len(c_result.details) = 2
    /\ c_result.details[1] = Row(3, TRUE)
    /\ c_result.details[2] = Row(4, TRUE)
    /\ c_result.details[1].output = c_result.details[2].output
    /\ c_outputs["song"] = 4
    /\ c_result.errors = <<>>


\* ---- C26 ----
\* two calls with different service names and one display name, both past
\* their return
SameDisplayName ==
    /\ r_info[1].nice = r_info[2].nice
    /\ r_info[1].orig # r_info[2].orig
    /\ \A w \in Calls : r_info[w].orig # r_info[w].nice
    /\ \A w \in Calls : r_pc[w] = "returned"

Last(q) == q[Len(q)]

C30_ReportedFileExists ==
    (\A w \in Calls : r_pc[w] = "returned") =>
        \A w \in Calls : r_res[w].ok => r_folder[r_res[w].filename] # 0

====
